---- MODULE Spec2Model ----
(***************************************************************************)
(* TalknShop orchestrator: the buyer-flow workflow graph, its step         *)
(* executors, the checkpointed State Record, and the WebSocket message     *)
(* handler that drives the graph and streams its events through the        *)
(* connection manager.                                                     *)
(*                                                                         *)
(* One session_id is modelled.  Several WebSocket channels may be opened   *)
(* with that session_id; each has its own handler loop, all of them share  *)
(* the checkpoint thread (thread_id = session_id) and the manager's        *)
(* registry entry for the session.                                         *)
(***************************************************************************)
EXTENDS Integers, Sequences, FiniteSets, TLC

(***************************************************************************)
(* Bounds of the model.                                                    *)
(***************************************************************************)
MaxTurns == 3
MaxRaceTurns == 2
MaxTokens == 1
MaxFaults == 1
MaxRaceFaults == 0

(***************************************************************************)
(* The channels (WebSocket connections) a client may open for the session. *)
(***************************************************************************)
Channels == {1, 2}
NoChan == 0

(***************************************************************************)
(* need_clarify's guardrail on the number of clarification loops.          *)
(***************************************************************************)
ClarifyCap == 2

(***************************************************************************)
(* WorkflowStage values; "absent" stands for a key the state dict lacks.   *)
(***************************************************************************)
WorkflowStage ==
    {"initial", "media_processing", "requirement_building", "clarification",
     "searching", "ranking", "completed", "failed", "cancelled"}

NodeNames ==
    {"parse_input", "need_media_ops", "transcribe_audio", "extract_image_attrs",
     "build_requirement", "need_clarify", "ask_clarifying_q",
     "search_marketplaces", "rank_and_compose", "done"}

(***************************************************************************)
(* RequirementSpec, reduced to the fields the guardrail and the merge      *)
(* invariant read: product_type (possibly the empty string), the keys of   *)
(* the attribute map, and whether a price bound is given.  present = FALSE *)
(* is Python's None.                                                       *)
(***************************************************************************)
NoSpec == [present |-> FALSE, product_type |-> "", attributes |-> {}, price |-> FALSE]

RequirementSpec ==
    [present : {TRUE}, product_type : {"", "laptop"},
     attributes : SUBSET {"color"}, price : BOOLEAN]

(***************************************************************************)
(* The requirement specs the language model is taken to answer with.       *)
(***************************************************************************)
LLMSpecs ==
    {[present |-> TRUE, product_type |-> "", attributes |-> {}, price |-> FALSE],
     [present |-> TRUE, product_type |-> "laptop", attributes |-> {}, price |-> FALSE],
     [present |-> TRUE, product_type |-> "laptop", attributes |-> {"color"}, price |-> FALSE]}

(***************************************************************************)
(* WorkflowState: the dict that flows through the graph.  Keys declared    *)
(* total=False may be missing; a missing key is "absent" (or the default   *)
(* every reader of the key applies with state.get).                        *)
(***************************************************************************)
EmptyState ==
    [stage |-> "absent",
     user_message |-> "",
     media_refs |-> "none",
     need_stt |-> FALSE,
     need_vision |-> FALSE,
     audio_transcript |-> "absent",
     image_attributes |-> "absent",
     requirement_spec |-> NoSpec,
     requirement_history |-> 0,
     needs_clarification |-> FALSE,
     clarifying_question |-> "absent",
     clarification_count |-> 0,
     raw_search_results |-> "absent",
     ranked_results |-> "absent",
     final_response |-> "absent",
     error |-> FALSE,
     completed_at |-> 0,
     node_trace |-> << >>]

(***************************************************************************)
(* state.get("node_trace", []) + [name]                                    *)
(***************************************************************************)
Traced(state, name) == Append(state.node_trace, name)

(***************************************************************************)
(* Node 1.  store_ok: session_repo.get_session / create_session returned.  *)
(* TurnInput(message=...) rejects a message that is empty after strip();   *)
(* every exception lands in the except branch.                             *)
(***************************************************************************)
parse_input(state, store_ok) ==
    IF store_ok /\ state.user_message # ""
    THEN [state EXCEPT !.stage = "initial",
                       !.node_trace = Traced(state, "parse_input")]
    ELSE [state EXCEPT !.error = TRUE, !.stage = "failed"]

(***************************************************************************)
(* Node 2.  llm is the collaborator's answer: ok = FALSE when the call     *)
(* raises or the content is not a JSON object.  The names has_audio and    *)
(* has_image are bound nowhere in nodes.py: `x and has_audio` evaluates    *)
(* has_audio, and raises NameError, exactly when x is truthy.              *)
(***************************************************************************)
NameErrorRaised(llm) == llm.need_stt \/ llm.need_vision

need_media_ops(state, mock, llm) ==
    IF mock \/ state.media_refs = "none"
    THEN [state EXCEPT !.need_stt = FALSE, !.need_vision = FALSE,
                       !.stage = "requirement_building",
                       !.node_trace = Traced(state, "need_media_ops")]
    ELSE IF llm.ok /\ ~NameErrorRaised(llm)
    THEN [state EXCEPT !.need_stt = llm.need_stt, !.need_vision = llm.need_vision,
                       !.stage = "media_processing",
                       !.node_trace = Traced(state, "need_media_ops")]
    ELSE [state EXCEPT !.need_stt = FALSE, !.need_vision = FALSE,
                       !.stage = "requirement_building"]

(***************************************************************************)
(* Nodes 3 and 4.  MediaReference has the field media_type and no field    *)
(* category, so the list comprehension raises AttributeError as soon as    *)
(* media_refs holds one reference; with no reference the node returns the  *)
(* state untouched.                                                        *)
(***************************************************************************)
transcribe_audio(state) ==
    IF state.media_refs = "none"
    THEN state
    ELSE [state EXCEPT !.audio_transcript = "none"]

extract_image_attrs(state) ==
    IF state.media_refs = "none"
    THEN state
    ELSE [state EXCEPT !.image_attributes = "none"]

(***************************************************************************)
(* Node 5.  llm.ok = FALSE: the call raised, the content was not JSON, or  *)
(* the RequirementSpec constructor rejected it.  In the mock branch neither   *)
(* prompt nor response is assigned, so building the dict passed to         *)
(* state.update raises UnboundLocalError after the spec was saved.         *)
(***************************************************************************)
build_or_update_requirement_spec(state, mock, llm, store_ok) ==
    IF ~mock /\ llm.ok /\ store_ok
    THEN [state EXCEPT !.requirement_spec = llm.spec,
                       !.requirement_history = state.requirement_history + 1,
                       !.stage = "requirement_building",
                       !.node_trace = Traced(state, "build_requirement")]
    ELSE [state EXCEPT !.error = TRUE, !.stage = "failed"]

(***************************************************************************)
(* Node 6.                                                                 *)
(***************************************************************************)
has_meaningful_constraint(spec) == spec.price \/ spec.attributes # {}

CountAtCap_off_by_one(clarification_count) == clarification_count > ClarifyCap

CountAtCap(clarification_count) == clarification_count >= ClarifyCap

need_clarify_cap_not_forced(state, mock, llm) ==
    LET spec == state.requirement_spec
        incomplete == ~spec.present \/ spec.product_type = ""
                      \/ ~has_meaningful_constraint(spec)
        trace == Traced(state, "need_clarify")
    IN  IF mock
        THEN [state EXCEPT !.needs_clarification = FALSE, !.stage = "searching",
                           !.node_trace = trace]
        ELSE IF incomplete
        THEN [state EXCEPT !.needs_clarification = TRUE, !.stage = "clarification",
                           !.node_trace = trace]
        ELSE IF CountAtCap(state.clarification_count) \/ ~llm.ok
        THEN [state EXCEPT !.needs_clarification = FALSE, !.stage = "searching",
                           !.node_trace = trace]
        ELSE [state EXCEPT !.needs_clarification = llm.needs_clarification,
                           !.stage = IF llm.needs_clarification
                                     THEN "clarification" ELSE "searching",
                           !.node_trace = trace]

need_clarify_without_guardrail(state, mock, llm) ==
    LET trace == Traced(state, "need_clarify")
    IN  IF mock \/ CountAtCap(state.clarification_count)
        THEN [state EXCEPT !.needs_clarification = FALSE, !.stage = "searching",
                           !.node_trace = trace]
        ELSE IF ~state.requirement_spec.present
        THEN [state EXCEPT !.needs_clarification = TRUE, !.stage = "clarification",
                           !.node_trace = trace]
        ELSE IF llm.ok
        THEN [state EXCEPT !.needs_clarification = llm.needs_clarification,
                           !.stage = IF llm.needs_clarification
                                     THEN "clarification" ELSE "searching",
                           !.node_trace = trace]
        ELSE [state EXCEPT !.needs_clarification = FALSE, !.stage = "searching"]

need_clarify(state, mock, llm) ==
    LET spec == state.requirement_spec
        has_product_type == spec.product_type # ""
        has_constraint == has_meaningful_constraint(spec)
        trace == Traced(state, "need_clarify")
    IN  IF mock
        THEN [state EXCEPT !.needs_clarification = FALSE, !.stage = "searching",
                           !.node_trace = trace]
        ELSE IF CountAtCap(state.clarification_count)
        THEN [state EXCEPT !.needs_clarification = FALSE, !.stage = "searching",
                           !.node_trace = trace]
        ELSE IF ~spec.present
        THEN [state EXCEPT !.needs_clarification = TRUE, !.stage = "clarification",
                           !.node_trace = trace]
        ELSE IF ~has_product_type \/ ~has_constraint
        THEN [state EXCEPT !.needs_clarification = TRUE, !.stage = "clarification",
                           !.node_trace = trace]
        ELSE IF llm.ok
        THEN [state EXCEPT !.needs_clarification = llm.needs_clarification,
                           !.stage = IF llm.needs_clarification
                                     THEN "clarification" ELSE "searching",
                           !.node_trace = trace]
        ELSE [state EXCEPT !.needs_clarification = FALSE, !.stage = "searching"]

(***************************************************************************)
(* Node 7.  llm_ok = FALSE: llm.ainvoke raised.                            *)
(***************************************************************************)
ask_clarifying_question(state, mock, llm_ok) ==
    IF mock \/ llm_ok
    THEN [state EXCEPT !.clarifying_question = "text",
                       !.clarification_count = state.clarification_count + 1,
                       !.stage = "clarification",
                       !.node_trace = Traced(state, "ask_clarifying_q")]
    ELSE [state EXCEPT !.clarifying_question = "none", !.stage = "searching"]

(***************************************************************************)
(* Node 8.  catalog: "fail" when catalog_client.search_products raises,    *)
(* otherwise a SearchResults object with no product or with some.          *)
(***************************************************************************)
search_marketplaces_fails_on_error(state, catalog) ==
    IF ~state.requirement_spec.present \/ catalog = "fail"
    THEN [state EXCEPT !.error = TRUE, !.stage = "failed"]
    ELSE [state EXCEPT !.raw_search_results = catalog,
                       !.stage = "searching",
                       !.node_trace = Traced(state, "search_marketplaces")]

search_marketplaces(state, catalog) ==
    IF ~state.requirement_spec.present
    THEN [state EXCEPT !.error = TRUE, !.stage = "failed"]
    ELSE IF catalog = "fail"
    THEN [state EXCEPT !.error = TRUE, !.raw_search_results = "list_empty"]
    ELSE [state EXCEPT !.raw_search_results = catalog,
                       !.stage = "searching",
                       !.node_trace = Traced(state, "search_marketplaces")]

(***************************************************************************)
(* Node 9.  products_list is empty for a missing key, for [] and for a     *)
(* SearchResults without products.                                         *)
(***************************************************************************)
rank_and_compose(state) ==
    IF state.raw_search_results # "obj_some"
    THEN [state EXCEPT !.ranked_results = "empty",
                       !.final_response = "no_match",
                       !.stage = "ranking",
                       !.node_trace = Traced(state, "rank_and_compose")]
    ELSE [state EXCEPT !.ranked_results = "some",
                       !.final_response = "found",
                       !.stage = "ranking",
                       !.node_trace = Traced(state, "rank_and_compose")]

(***************************************************************************)
(* Node 10.  now is datetime.utcnow().  The node raises when               *)
(* session_repo.update_session does (see NodeRaises).                      *)
(***************************************************************************)
done(state, now) ==
    [state EXCEPT !.stage = "completed",
                  !.completed_at = now,
                  !.node_trace = Traced(state, "done")]

(***************************************************************************)
(* Conditional edges and the edge table of build_buyer_flow_graph.         *)
(***************************************************************************)
END == "__end__"

should_process_audio(state) ==
    IF state.need_stt THEN "transcribe_audio" ELSE "build_requirement"

should_process_image(state) ==
    IF state.need_vision THEN "extract_image_attrs" ELSE "build_requirement"

should_clarify(state) ==
    IF state.needs_clarification THEN "ask_clarifying_q" ELSE "search_marketplaces"

EntryPoint_at_decision == "need_clarify"

EntryPoint == "parse_input"

(***************************************************************************)
(* ClientMessage.message as the handler passes it on, after strip(); ""    *)
(* is the empty message.  The client is taken to send text.                *)
(***************************************************************************)
Messages == {"text"}

build_buyer_flow_graph_loops_back(node, state) ==
    CASE node = "parse_input" -> "need_media_ops"
      [] node = "need_media_ops" -> should_process_audio(state)
      [] node = "transcribe_audio" -> should_process_image(state)
      [] node = "extract_image_attrs" -> "build_requirement"
      [] node = "build_requirement" -> "need_clarify"
      [] node = "need_clarify" -> should_clarify(state)
      [] node = "ask_clarifying_q" -> "build_requirement"
      [] node = "search_marketplaces" -> "rank_and_compose"
      [] node = "rank_and_compose" -> "done"
      [] node = "done" -> END

build_buyer_flow_graph(node, state) ==
    CASE node = "parse_input" -> "need_media_ops"
      [] node = "need_media_ops" -> should_process_audio(state)
      [] node = "transcribe_audio" -> should_process_image(state)
      [] node = "extract_image_attrs" -> "build_requirement"
      [] node = "build_requirement" -> "need_clarify"
      [] node = "need_clarify" -> should_clarify(state)
      [] node = "ask_clarifying_q" -> END
      [] node = "search_marketplaces" -> "rank_and_compose"
      [] node = "rank_and_compose" -> "done"
      [] node = "done" -> END

(***************************************************************************)
(* What the collaborators answer during one step: the session store, the   *)
(* language model and the catalog.  Every node reads only its own part.    *)
(***************************************************************************)
DefaultEnv ==
    [store_ok |-> TRUE, ok |-> TRUE, need_stt |-> FALSE, need_vision |-> FALSE,
     spec |-> NoSpec, needs_clarification |-> FALSE, catalog |-> "obj_empty"]

Outcomes(node) ==
    CASE node \in {"parse_input", "done"} ->
            {[DefaultEnv EXCEPT !.store_ok = b] : b \in BOOLEAN}
      [] node = "need_media_ops" ->
            {[DefaultEnv EXCEPT !.ok = FALSE]} \cup
            {[DefaultEnv EXCEPT !.need_stt = a, !.need_vision = v] :
                a \in BOOLEAN, v \in BOOLEAN}
      [] node = "build_requirement" ->
            {[DefaultEnv EXCEPT !.ok = FALSE], [DefaultEnv EXCEPT !.store_ok = FALSE]} \cup
            {[DefaultEnv EXCEPT !.spec = r] : r \in LLMSpecs}
      [] node = "need_clarify" ->
            {[DefaultEnv EXCEPT !.ok = FALSE]} \cup
            {[DefaultEnv EXCEPT !.needs_clarification = b] : b \in BOOLEAN}
      [] node = "ask_clarifying_q" ->
            {[DefaultEnv EXCEPT !.ok = b] : b \in BOOLEAN}
      [] node = "search_marketplaces" ->
            {[DefaultEnv EXCEPT !.catalog = r] : r \in {"fail", "obj_empty", "obj_some"}}
      [] OTHER -> {DefaultEnv}

(***************************************************************************)
(* The node functions as wired by graph.add_node.                          *)
(***************************************************************************)
ExecNode(node, state, mock, env, now) ==
    CASE node = "parse_input" -> parse_input(state, env.store_ok)
      [] node = "need_media_ops" -> need_media_ops(state, mock, env)
      [] node = "transcribe_audio" -> transcribe_audio(state)
      [] node = "extract_image_attrs" -> extract_image_attrs(state)
      [] node = "build_requirement" ->
            build_or_update_requirement_spec(state, mock, env, env.store_ok)
      [] node = "need_clarify" -> need_clarify(state, mock, env)
      [] node = "ask_clarifying_q" -> ask_clarifying_question(state, mock, env.ok)
      [] node = "search_marketplaces" -> search_marketplaces(state, env.catalog)
      [] node = "rank_and_compose" -> rank_and_compose(state)
      [] node = "done" -> done(state, now)

(***************************************************************************)
(* done awaits session_repo.update_session outside any try block: a store  *)
(* failure leaves the node, and the graph run, by an exception.            *)
(***************************************************************************)
NodeRaises(node, env) == node = "done" /\ ~env.store_ok

(***************************************************************************)
(* The nodes that reach llm.ainvoke, the source of on_chat_model_stream.   *)
(***************************************************************************)
CallsLLM(node, state, mock) ==
    /\ ~mock
    /\ \/ node = "need_media_ops" /\ state.media_refs # "none"
       \/ node = "build_requirement"
       \/ node = "ask_clarifying_q"
       \/ /\ node = "need_clarify"
          /\ ~CountAtCap(state.clarification_count)
          /\ state.requirement_spec.present
          /\ state.requirement_spec.product_type # ""
          /\ has_meaningful_constraint(state.requirement_spec)

(***************************************************************************)
(* ConnectionManager.  Sessions are the session_ids clients connect with,  *)
(* Conns the WebSocket connections the server accepts; the heartbeat task  *)
(* a connect call creates is named by its connection.  Time is counted in  *)
(* heartbeat intervals (settings.ws_heartbeat_interval seconds): the       *)
(* cleanup loop sleeps two of them, a connection is stale after ten.       *)
(***************************************************************************)
\* MaxConns connections are attempted, MaxConnections stands for
\* settings.ws_max_concurrent_connections, MaxTicks intervals pass.
MaxConns == 3
MaxConnections == 2
MaxTicks == 5

SessionOrder == <<"s1", "s2", "s3">>
Sessions == {SessionOrder[i] : i \in DOMAIN SessionOrder}
Conns == 1..MaxConns
NoConn == 0

HeartbeatInterval == 1
OverdueFactor == 2
CleanupInterval == 2
StaleTimeout == 10

NoMeta == [present |-> FALSE, last_heartbeat |-> 0, last_activity |-> 0]

ConnectionMetadata(now) ==
    [present |-> TRUE, last_heartbeat |-> now, last_activity |-> now]

is_stale(metadata, now) == now - metadata.last_activity > StaleTimeout

\* The comparison is made on clock readings taken at different instants of
\* the same tick: at exactly twice the interval either answer is possible.
is_heartbeat_overdue(metadata, now, late) ==
    \/ now - metadata.last_heartbeat > OverdueFactor * HeartbeatInterval
    \/ late /\ now - metadata.last_heartbeat = OverdueFactor * HeartbeatInterval

NoTask == [pc |-> "none", session |-> "s1", timer |-> 0]

\* The manager call made by the last step (history): a send_event with the
\* heartbeat task the session had and whether the transport failed, or a
\* sweep of the cleanup loop with the sessions it evicted.
NoLast == [op |-> "none", session |-> "s1", failed |-> FALSE, task |-> NoConn,
           evicted |-> {}]

\* ConnectionManager.__init__, with the connections and tasks of the server.
\*   conns[c].pc   new | rejecting (closing, lock held) | rejected | greeting
\*                 (CONNECTED to be sent) | open (handler in receive_json) |
\*                 closed
\*   conns[c].up   the client's end of the channel is open
\*   conns[c].inbox  PONG messages of the client the handler has not yet
\*                 received (used where the handler's turns take time)
\*   tasks[c].pc   none | sleeping | cancelled | exited
\*   raised        a call of the manager raised an exception (history)
ManagerInit ==
    [active_connections |-> [s \in Sessions |-> NoConn],
     connection_metadata |-> [s \in Sessions |-> NoMeta],
     heartbeat_tasks |-> [s \in Sessions |-> NoConn],
     cleanup_task |-> [pc |-> "none", timer |-> 0],
     lock |-> NoConn,
     tasks |-> [c \in Conns |-> NoTask],
     conns |-> [c \in Conns |-> [pc |-> "new", session |-> "s1", up |-> TRUE,
                                 inbox |-> 0]],
     now |-> 0,
     raised |-> FALSE,
     last |-> NoLast]

Registered(m) == {s \in Sessions : m.active_connections[s] # NoConn}

cancel(task) ==
    IF task.pc = "sleeping" THEN [task EXCEPT !.pc = "cancelled", !.timer = 0] ELSE task

mgr_disconnect_unchecked(m, session_id) ==
    IF m.heartbeat_tasks[session_id] = NoConn
    THEN [m EXCEPT !.raised = TRUE]
    ELSE [m EXCEPT !.tasks[m.heartbeat_tasks[session_id]] = cancel(@),
                   !.heartbeat_tasks[session_id] = NoConn,
                   !.active_connections[session_id] = NoConn,
                   !.connection_metadata[session_id] = NoMeta]

mgr_disconnect_keeps_metadata(m, session_id) ==
    LET t == m.heartbeat_tasks[session_id]
        m1 == IF t # NoConn
              THEN [m EXCEPT !.tasks[t] = cancel(@),
                             !.heartbeat_tasks[session_id] = NoConn]
              ELSE m
    IN  IF m1.active_connections[session_id] # NoConn
        THEN [m1 EXCEPT !.active_connections[session_id] = NoConn]
        ELSE m1

mgr_disconnect_clears_registry(m, session_id) ==
    [m EXCEPT !.tasks = [c \in Conns |-> cancel(m.tasks[c])],
              !.heartbeat_tasks = [s \in Sessions |-> NoConn],
              !.active_connections = [s \in Sessions |-> NoConn],
              !.connection_metadata = [s \in Sessions |-> NoMeta]]

\* ConnectionManager.disconnect: each map is touched only where it holds
\* the session.
mgr_disconnect(m, session_id) ==
    LET t == m.heartbeat_tasks[session_id]
        m1 == IF t # NoConn
              THEN [m EXCEPT !.tasks[t] = cancel(@),
                             !.heartbeat_tasks[session_id] = NoConn]
              ELSE m
        m2 == IF m1.active_connections[session_id] # NoConn
              THEN [m1 EXCEPT !.active_connections[session_id] = NoConn]
              ELSE m1
    IN  IF m2.connection_metadata[session_id].present
        THEN [m2 EXCEPT !.connection_metadata[session_id] = NoMeta]
        ELSE m2

\* ConnectionManager.send_event: the result, then the manager afterwards.
SendResult(m, session_id) ==
    /\ m.active_connections[session_id] # NoConn
    /\ m.conns[m.active_connections[session_id]].up

SendRecord(m, session_id) ==
    [op |-> "send_event", session |-> session_id,
     failed |-> m.active_connections[session_id] # NoConn /\ ~SendResult(m, session_id),
     task |-> m.heartbeat_tasks[session_id], evicted |-> {}]

mgr_send_event_keeps_session(m, session_id) ==
    IF SendResult(m, session_id) /\ m.connection_metadata[session_id].present
    THEN [m EXCEPT !.connection_metadata[session_id].last_activity = m.now,
                   !.last = SendRecord(m, session_id)]
    ELSE [m EXCEPT !.last = SendRecord(m, session_id)]

mgr_send_event(m, session_id) ==
    IF m.active_connections[session_id] = NoConn
    THEN [m EXCEPT !.last = SendRecord(m, session_id)]
    ELSE IF m.conns[m.active_connections[session_id]].up
    THEN IF m.connection_metadata[session_id].present
         THEN [m EXCEPT !.connection_metadata[session_id].last_activity = m.now,
                        !.last = SendRecord(m, session_id)]
         ELSE [m EXCEPT !.last = SendRecord(m, session_id)]
    ELSE [mgr_disconnect(m, session_id) EXCEPT !.last = SendRecord(m, session_id)]

LimitReached_off_by_one(m) == Cardinality(Registered(m)) > MaxConnections

LimitReached(m) == Cardinality(Registered(m)) >= MaxConnections

\* ConnectionManager.connect from the lock to the first await after it: the
\* limit check, the registration, the heartbeat task and the cleanup task.
mgr_connect(m, c, session_id) ==
    IF LimitReached(m)
    THEN [m EXCEPT !.lock = c, !.conns[c].pc = "rejecting"]
    ELSE [m EXCEPT !.active_connections[session_id] = c,
                   !.connection_metadata[session_id] = ConnectionMetadata(m.now),
                   !.tasks[c] = [pc |-> "sleeping", session |-> session_id,
                                 timer |-> HeartbeatInterval],
                   !.heartbeat_tasks[session_id] = c,
                   !.cleanup_task = IF @.pc = "none"
                                    THEN [pc |-> "sleeping", timer |-> CleanupInterval]
                                    ELSE @,
                   !.conns[c].pc = "greeting"]

(***************************************************************************)
(* A call of a step function or of the catalog client outside a run of the *)
(* graph: the arguments of the call and its result.                        *)
(***************************************************************************)
NoCall ==
    [op |-> "none", before |-> EmptyState, after |-> EmptyState,
     raw |-> << >>, products |-> << >>, ranked |-> << >>, env |-> DefaultEnv,
     outcomes |-> << >>, attempts |-> 0, result |-> "none",
     store |-> << >>, session_id |-> "none", updates |-> {}]

(***************************************************************************)
(* State of the program.                                                   *)
(*   mock        settings.use_mock_services                                *)
(*   checkpoint  the checkpointer's latest State Record for the thread     *)
(*   hs          per channel: the handler loop and the graph run it drives *)
(*   active      manager.active_connections[session_id], or NoChan         *)
(*   wsOpen      whether a channel's transport still carries messages      *)
(*   nturns      number of turns started so far                            *)
(*   faults      number of collaborator calls that failed so far           *)
(*   committed   steps whose checkpoint was written since the last run     *)
(*               that reached END through done (history variable)          *)
(*   cm          the ConnectionManager with its connections and tasks      *)
(*   call        the step function called outside a graph run, if any      *)
(***************************************************************************)
VARIABLES mock, checkpoint, hs, active, wsOpen, nturns, faults, committed, cm, call

vars == <<mock, checkpoint, hs, active, wsOpen, nturns, faults, committed, cm, call>>

sessionVars == <<mock, checkpoint, hs, active, wsOpen, nturns, faults, committed>>

(***************************************************************************)
(* A handler before its channel is opened.                                 *)
(*   pc        unopened | idle (in receive_json) | instep (a node is in    *)
(*             flight) | closed                                            *)
(*   kind      type of the client message of the current or last turn      *)
(*   outcome   how the last turn ended: paused | completed | raised |      *)
(*             rejected, "none" while a turn runs or before the first      *)
(*   st        the run's State Record                                      *)
(*   next      the node to execute                                         *)
(*   executed  the nodes the run executed, in order (history)              *)
(*   log       the events handed to send_event during the turn (history)   *)
(*   answered  some results, clarification, done or error event of the     *)
(*             turn was delivered to the client (history)                  *)
(*   entry     the value of committed when the turn started (history)      *)
(*   resumed   the turn is an ANSWER to a session paused in CLARIFICATION  *)
(*             (history)                                                   *)
(***************************************************************************)
InitHandler ==
    [pc |-> "unopened", kind |-> "none", outcome |-> "none", st |-> EmptyState,
     next |-> END, executed |-> << >>, log |-> << >>, answered |-> FALSE,
     entry |-> {}, resumed |-> FALSE]

Init ==
    /\ mock \in BOOLEAN
    /\ checkpoint = EmptyState
    /\ hs = [c \in Channels |-> InitHandler]
    /\ active = NoChan
    /\ wsOpen = [c \in Channels |-> FALSE]
    /\ nturns = 0
    /\ faults = 0
    /\ committed = {}
    /\ cm = ManagerInit
    /\ call = NoCall

(***************************************************************************)
(* ConnectionManager.send_event on the session: nothing is sent when the   *)
(* session is not registered; a transport failure force-disconnects it.    *)
(***************************************************************************)
SendOk(a, w) == a # NoChan /\ w[a]

send_event(events, a, w) == IF SendOk(a, w) THEN events ELSE << >>

AnswerEvents == {"results", "clarification", "done", "error"}

Answers(events) == \E i \in DOMAIN events : events[i] \in AnswerEvents

disconnect(a) == NoChan

\* What client c receives of the events sent on the session: they go to the
\* channel registered under the session_id, which is c's or another one.
Delivered(events, c, a, w) == IF a = c THEN send_event(events, a, w) ELSE << >>

RegistryAfterSend(events, a, w) ==
    IF events # << >> /\ a # NoChan /\ ~w[a] THEN disconnect(a) ELSE a

(***************************************************************************)
(* Number of failed calls among the collaborator calls of one action.      *)
(***************************************************************************)
Failed(ok) == IF ok THEN 0 ELSE 1

FaultsOf(env) ==
    Failed(env.store_ok) + Failed(env.ok) + Failed(env.catalog # "fail")

(***************************************************************************)
(* websocket_chat_endpoint up to the handler's receive loop: connect       *)
(* registers the channel under the session_id, then the handler loads or   *)
(* creates the session row.  A store failure ends the endpoint through     *)
(* manager.disconnect(session_id).                                         *)
(***************************************************************************)
Connect(c, maxf) ==
    /\ hs[c].pc = "unopened"
    /\ \E store_ok \in BOOLEAN :
         /\ faults + Failed(store_ok) <= maxf
         /\ faults' = faults + Failed(store_ok)
         /\ IF store_ok
            THEN /\ active' = c
                 /\ wsOpen' = [wsOpen EXCEPT ![c] = TRUE]
                 /\ hs' = [hs EXCEPT ![c].pc = "idle"]
            ELSE /\ active' = disconnect(c)
                 /\ wsOpen' = wsOpen
                 /\ hs' = [hs EXCEPT ![c].pc = "closed"]
    /\ UNCHANGED <<cm, call, mock, checkpoint, nturns, committed>>

(***************************************************************************)
(* The input dict of stream_workflow_events laid over the checkpointed     *)
(* channels: keys of the input replace the stored value, every other key   *)
(* keeps it.                                                               *)
(***************************************************************************)
initial_state(saved, kind, msg, media) ==
    [saved EXCEPT !.media_refs = media,
                  !.node_trace = << >>,
                  !.user_message = msg,
                  !.needs_clarification = IF kind = "answer" THEN FALSE ELSE @]

(***************************************************************************)
(* The events stream_workflow_events sends on the on_chain_end of a node,  *)
(* and, for done, after the loop: RESULTS when the final state has         *)
(* ranked_results, then DONE.  Every other node is followed by the         *)
(* on_chain_start of its successor: PROGRESS.                              *)
(***************************************************************************)
stream_workflow_events(node, output) ==
    CASE node = "ask_clarifying_q" -> <<"clarification">>
      [] node = "search_marketplaces" -> <<"progress", "progress">>
      [] node = "rank_and_compose" -> <<"results", "progress">>
      [] node = "done" ->
            (IF output.ranked_results # "absent" THEN <<"results">> ELSE << >>)
            \o <<"done">>
      [] OTHER -> <<"progress">>

(***************************************************************************)
(* process_user_message's except branch: ERROR is sent and the session row *)
(* is set to FAILED; when that update raises too, the exception reaches    *)
(* handle_websocket_messages, which sends ERROR once more.                 *)
(***************************************************************************)
process_user_message_except(store_ok) ==
    IF store_ok THEN <<"error">> ELSE <<"error", "error">>

(***************************************************************************)
(* A MESSAGE or ANSWER arrives: process_user_message sends THINKING,       *)
(* updates the session row and enters stream_workflow_events, where the    *)
(* graph run starts at the entry point (on_chain_start of the graph and of *)
(* parse_input: PROGRESS twice).  The input is written to the channels and *)
(* checkpointed before the first step.                                     *)
(***************************************************************************)
TurnStart(c, limit, maxf) ==
    /\ hs[c].pc = "idle"
    /\ wsOpen[c]
    /\ nturns < limit
    /\ nturns' = nturns + 1
    /\ \E kind \in {"message", "answer"}, msg \in Messages,
          media \in {"none", "some"}, store_ok \in BOOLEAN, store_ok2 \in BOOLEAN :
         LET nfail == IF store_ok THEN 0 ELSE 1 + Failed(store_ok2)
             events == IF store_ok
                       THEN <<"thinking", "progress", "progress">>
                       ELSE <<"thinking">> \o process_user_message_except(store_ok2)
         IN  /\ store_ok => store_ok2
             /\ faults + nfail <= maxf
             /\ faults' = faults + nfail
             /\ active' = RegistryAfterSend(events, active, wsOpen)
             /\ IF store_ok
                THEN LET input == initial_state(checkpoint, kind, msg, media)
                     IN  /\ checkpoint' = input
                         /\ hs' = [hs EXCEPT ![c] =
                                    [pc |-> "instep", kind |-> kind, outcome |-> "none",
                                     st |-> input, next |-> EntryPoint,
                                     executed |-> << >>, log |-> events,
                                     answered |-> FALSE, entry |-> committed,
                                     resumed |-> kind = "answer"
                                                 /\ checkpoint.stage = "clarification"]]
                ELSE /\ checkpoint' = checkpoint
                     /\ hs' = [hs EXCEPT ![c] =
                                [pc |-> "idle", kind |-> kind, outcome |-> "rejected",
                                 st |-> checkpoint, next |-> END, executed |-> << >>,
                                 log |-> events,
                                 answered |-> Answers(Delivered(events, c, active, wsOpen)),
                                 entry |-> committed, resumed |-> FALSE]]
    /\ UNCHANGED <<cm, call, mock, wsOpen, committed>>

(***************************************************************************)
(* on_chat_model_stream while the node in flight awaits the language       *)
(* model: TOKEN is sent.                                                   *)
(***************************************************************************)
TokenCount(log) == Cardinality({i \in DOMAIN log : log[i] = "token"})

Token(c) ==
    /\ hs[c].pc = "instep"
    /\ CallsLLM(hs[c].next, hs[c].st, mock)
    /\ TokenCount(hs[c].log) < MaxTokens
    /\ hs' = [hs EXCEPT ![c].log = Append(@, "token")]
    /\ active' = RegistryAfterSend(<<"token">>, active, wsOpen)
    /\ UNCHANGED <<cm, call, mock, checkpoint, wsOpen, nturns, faults, committed>>

(***************************************************************************)
(* The node in flight returns.  Its output is written to the channels and  *)
(* the checkpoint is saved before the outgoing edge is evaluated; the      *)
(* handler reacts to on_chain_end, and the next node, if any, starts.      *)
(* ask_clarifying_q makes the handler leave the event loop, done ends the  *)
(* graph.  When the node raises, nothing is written and the exception      *)
(* reaches process_user_message.                                           *)
(***************************************************************************)
StepEnd(c, maxf) ==
    /\ hs[c].pc = "instep"
    /\ \E env \in Outcomes(hs[c].next), store_ok2 \in BOOLEAN :
         LET h == hs[c]
             node == h.next
             output == ExecNode(node, h.st, mock, env, nturns)
             target == build_buyer_flow_graph(node, output)
             events == IF NodeRaises(node, env)
                       THEN process_user_message_except(store_ok2)
                       ELSE stream_workflow_events(node, output)
             nfail == FaultsOf(env) + Failed(store_ok2)
         IN  /\ ~NodeRaises(node, env) => store_ok2
             /\ faults + nfail <= maxf
             /\ faults' = faults + nfail
             /\ active' = RegistryAfterSend(events, active, wsOpen)
             /\ IF NodeRaises(node, env)
                THEN /\ hs' = [hs EXCEPT ![c] =
                                [h EXCEPT !.pc = "idle", !.outcome = "raised",
                                          !.next = END,
                                          !.executed = Append(@, node),
                                          !.log = @ \o events,
                                          !.answered =
                                              @ \/ Answers(Delivered(events, c, active, wsOpen))]]
                     /\ UNCHANGED <<checkpoint, committed>>
                ELSE /\ hs' = [hs EXCEPT ![c] =
                                [h EXCEPT !.pc = IF target = END THEN "idle" ELSE "instep",
                                          !.outcome = CASE node = "done" -> "completed"
                                                        [] node = "ask_clarifying_q" -> "paused"
                                                        [] OTHER -> "none",
                                          !.st = output,
                                          !.next = target,
                                          !.executed = Append(@, node),
                                          !.log = @ \o events,
                                          !.answered =
                                              @ \/ Answers(Delivered(events, c, active, wsOpen))]]
                     /\ checkpoint' = output
                     /\ committed' = IF node = "done" THEN {} ELSE committed \cup {node}
    /\ UNCHANGED <<cm, call, mock, wsOpen, nturns>>

(***************************************************************************)
(* The client closes its end of the channel.                               *)
(***************************************************************************)
ClientClose(c) ==
    /\ wsOpen[c]
    /\ wsOpen' = [wsOpen EXCEPT ![c] = FALSE]
    /\ UNCHANGED <<cm, call, mock, checkpoint, hs, active, nturns, faults, committed>>

(***************************************************************************)
(* receive_json raises WebSocketDisconnect on a closed channel; the        *)
(* endpoint answers with manager.disconnect(session_id).                   *)
(***************************************************************************)
ReceiveClosed(c) ==
    /\ hs[c].pc = "idle"
    /\ ~wsOpen[c]
    /\ hs' = [hs EXCEPT ![c].pc = "closed"]
    /\ active' = disconnect(active)
    /\ UNCHANGED <<cm, call, mock, checkpoint, wsOpen, nturns, faults, committed>>

(***************************************************************************)
(* Spec: the session driven through one channel, in either service mode.   *)
(***************************************************************************)
Next ==
    \/ Connect(1, MaxFaults)
    \/ TurnStart(1, MaxTurns, MaxFaults)
    \/ Token(1)
    \/ StepEnd(1, MaxFaults)
    \/ ClientClose(1)
    \/ ReceiveClosed(1)

Spec == Init /\ [][Next]_vars

(***************************************************************************)
(* SpecRace: the client opens every channel with the same session_id; the  *)
(* services run in mock mode (settings.use_mock_services) and no           *)
(* collaborator call fails.                                                *)
(***************************************************************************)
InitRace == Init /\ mock = TRUE

NextRace ==
    \E c \in Channels :
        \/ Connect(c, MaxRaceFaults)
        \/ TurnStart(c, MaxRaceTurns, MaxRaceFaults)
        \/ StepEnd(c, MaxRaceFaults)
        \/ ClientClose(c)
        \/ ReceiveClosed(c)

SpecRace == InitRace /\ [][NextRace]_vars

TypeOK ==
    /\ nturns \in 0..MaxTurns
    /\ active \in Channels \cup {NoChan}

(***************************************************************************)
(* Helpers of the properties.                                              *)
(***************************************************************************)
Range(seq) == {seq[i] : i \in DOMAIN seq}

Last(seq) == seq[Len(seq)]

NoDuplicates(seq) == \A i, j \in DOMAIN seq : seq[i] = seq[j] => i = j

Before(seq, a, b) == \E i, j \in DOMAIN seq : i < j /\ seq[i] = a /\ seq[j] = b

Routes ==
    {[EmptyState EXCEPT !.need_stt = a, !.need_vision = v, !.needs_clarification = q] :
        a \in BOOLEAN, v \in BOOLEAN, q \in BOOLEAN}

IsEdge(a, b) == \E state \in Routes : build_buyer_flow_graph(a, state) = b

IsTopologyPath(seq) ==
    /\ seq # << >> => seq[1] = EntryPoint
    /\ \A i \in DOMAIN seq : i > 1 => IsEdge(seq[i - 1], seq[i])
    /\ NoDuplicates(seq)

TurnEnded(h) == h.pc = "idle" /\ h.kind # "none"

AtCap(state) == state.clarification_count >= ClarifyCap

Incomplete(spec) ==
    ~spec.present \/ spec.product_type = "" \/ ~has_meaningful_constraint(spec)

(***************************************************************************)
(* C1.  In every reachable state, after any sequence of message and answer *)
(* turns, clarification_count is at most the cap of 2, in the checkpoint   *)
(* and in the State Record of every run.                                   *)
(***************************************************************************)
C1_CountWithinCap ==
    /\ checkpoint.clarification_count <= ClarifyCap
    /\ \A c \in Channels : hs[c].st.clarification_count <= ClarifyCap

\* Witness: at the cap, on a requirement that fails the guardrail,
\* need_clarify has sent the run on to search_marketplaces.
C1_Witness ==
    /\ hs[1].st.clarification_count = ClarifyCap
    /\ Incomplete(hs[1].st.requirement_spec)
    /\ hs[1].executed # << >>
    /\ Last(hs[1].executed) = "need_clarify"
    /\ hs[1].next = "search_marketplaces"

(***************************************************************************)
(* C2 as stated.  Once clarification_count has reached the cap,            *)
(* needs_clarification is false in every subsequent state of the State     *)
(* Record.                                                                 *)
(***************************************************************************)
C2_Original ==
    [][AtCap(checkpoint) => ~checkpoint'.needs_clarification]_vars

(***************************************************************************)
(* C2 as amended.  With clarification_count at the cap, every execution of *)
(* need_clarify leaves needs_clarification false and no later step or turn *)
(* start sets it back to true; it is true at the cap only in the State     *)
(* Record left by the ask_clarifying_q execution that reached the cap,     *)
(* until the next need_clarify execution or ANSWER clears it.              *)
(***************************************************************************)
C2_ForcedAtDecision ==
    /\ [](\A c \in Channels :
            (AtCap(hs[c].st) /\ hs[c].st.needs_clarification
                /\ "need_clarify" \in Range(hs[c].executed))
            => Last(hs[c].executed) = "ask_clarifying_q")
    /\ [][(AtCap(checkpoint) /\ ~checkpoint.needs_clarification)
            => ~checkpoint'.needs_clarification]_vars

\* Witness: the count is at the cap, the requirement still fails the
\* guardrail, need_clarify has just run and needs_clarification is false.
C2_Witness ==
    /\ AtCap(checkpoint)
    /\ Incomplete(checkpoint.requirement_spec)
    /\ ~checkpoint.needs_clarification
    /\ hs[1].executed # << >>
    /\ Last(hs[1].executed) = "need_clarify"
    /\ hs[1].st = checkpoint

(***************************************************************************)
(* C3.  For one session_id no two step executions are in flight at the     *)
(* same time, also when a second channel is opened with the same           *)
(* session_id while a turn runs.                                           *)
(***************************************************************************)
C3_SingleWriter ==
    Cardinality({c \in Channels : hs[c].pc = "instep"}) <= 1

(***************************************************************************)
(* C4.  At every point of a turn node_trace is a path of the workflow      *)
(* graph from parse_input: every executed step is recorded, consecutive    *)
(* entries are edges of the topology, no step occurs twice.                *)
(***************************************************************************)
C4_TraceIsPath ==
    \A c \in Channels :
        /\ hs[c].st.node_trace = hs[c].executed
        /\ IsTopologyPath(hs[c].st.node_trace)

(***************************************************************************)
(* C5.  Every turn a client starts with a message or answer is answered:   *)
(* when the turn has ended and the client's channel is still open, a       *)
(* results, clarification, done or error event of the turn was delivered.  *)
(***************************************************************************)
C5_NeverSilent ==
    \A c \in Channels : (TurnEnded(hs[c]) /\ wsOpen[c]) => hs[c].answered

(***************************************************************************)
(* C6.  Within a turn the events follow progress, token*, then             *)
(* clarification or results, then done: no progress or token event after   *)
(* the clarification or results event, and done is the last event.         *)
(***************************************************************************)
C6_EventOrder ==
    \A c \in Channels :
        LET log == hs[c].log
        IN  /\ \A i, j \in DOMAIN log :
                (i < j /\ log[i] \in {"clarification", "results"})
                => log[j] \notin {"progress", "token"}
            /\ "done" \in Range(log) => Last(log) = "done"

C8_NoStepRerun ==
    \A c \in Channels : Range(hs[c].executed) \cap hs[c].entry = {}

(***************************************************************************)
(* C9.  If build_requirement fails, the stage is FAILED and stays FAILED   *)
(* through the rest of the run: the State Record the turn ends with has    *)
(* stage = FAILED.                                                         *)
(***************************************************************************)
BuildFailed(h) ==
    /\ "build_requirement" \in Range(h.executed)
    /\ "build_requirement" \notin Range(h.st.node_trace)

C9_FailedIsTerminal ==
    \A c \in Channels : BuildFailed(hs[c]) => hs[c].st.stage = "failed"

(***************************************************************************)
(* C10.  Across all build_requirement executions of a session, a non-empty *)
(* product_type is never emptied and no attribute key is dropped.          *)
(***************************************************************************)
C10_MergeMonotonic ==
    [][checkpoint.requirement_spec.product_type # "" =>
          /\ checkpoint'.requirement_spec.product_type # ""
          /\ checkpoint.requirement_spec.attributes
                \subseteq checkpoint'.requirement_spec.attributes]_vars

(***************************************************************************)
(* C11.  An external cancellation request is observed at the next step     *)
(* boundary: the step in flight runs to completion, no further step is     *)
(* executed and the State Record ends with stage = CANCELLED.  The only    *)
(* request to stop a session the service accepts from outside is the       *)
(* client ending its channel (DISCONNECT or close), so the request is      *)
(* pending when the channel of a running turn is no longer open.           *)
(***************************************************************************)
CancelRequested(c) == hs[c].pc = "instep" /\ ~wsOpen[c]

C11_CancelAtBoundary ==
    [][\A c \in Channels :
          (CancelRequested(c) /\ hs'[c].executed # hs[c].executed)
          => (hs'[c].pc = "idle" /\ hs'[c].st.stage = "cancelled")]_vars

(***************************************************************************)
(* SpecCM: the ConnectionManager under connections of several sessions,    *)
(* the heartbeat loops, the cleanup loop and the passing of time.          *)
(***************************************************************************)

\* websocket_chat_endpoint calls manager.connect: accept, then the section
\* under the lock up to the first await.
Arrived(m) == {c \in Conns : m.conns[c].pc # "new"}

\* Connections are numbered in the order they arrive, session_ids in the
\* order they are first used.
InOrder(m, c, session_id) ==
    /\ \A d \in Conns : d < c => d \in Arrived(m)
    /\ \A i, j \in DOMAIN SessionOrder :
          (j < i /\ SessionOrder[i] = session_id)
          => \E d \in Arrived(m) : m.conns[d].session = SessionOrder[j]

CMConnect(c, session_id) ==
    /\ cm.conns[c].pc = "new"
    /\ cm.lock = NoConn
    /\ InOrder(cm, c, session_id)
    /\ cm' = mgr_connect([cm EXCEPT !.conns[c].session = session_id,
                                    !.last = NoLast], c, session_id)
    /\ UNCHANGED <<sessionVars, call>>

\* The rejected connect: websocket.close has returned, the lock is released,
\* WebSocketError reaches the endpoint, which calls manager.disconnect.
CMReject(c) ==
    /\ cm.conns[c].pc = "rejecting"
    /\ cm' = mgr_disconnect([cm EXCEPT !.lock = NoConn,
                                       !.conns[c].pc = "rejected",
                                       !.conns[c].up = FALSE,
                                       !.last = NoLast],
                            cm.conns[c].session)
    /\ UNCHANGED <<sessionVars, call>>

\* The accepted connect sends CONNECTED and returns; the handler enters its
\* receive loop.
CMGreet(c) ==
    /\ cm.conns[c].pc = "greeting"
    /\ cm.lock = NoConn
    /\ cm' = [mgr_send_event([cm EXCEPT !.last = NoLast], cm.conns[c].session)
                EXCEPT !.conns[c].pc = "open"]
    /\ UNCHANGED <<sessionVars, call>>

\* handle_websocket_messages receives PONG.
CMPong(c) ==
    /\ cm.conns[c].pc = "open"
    /\ cm.conns[c].up
    /\ cm.connection_metadata[cm.conns[c].session].present
    /\ cm' = [cm EXCEPT !.connection_metadata[cm.conns[c].session].last_heartbeat
                            = cm.now,
                        !.last = NoLast]
    /\ UNCHANGED <<sessionVars, call>>

\* A turn of the handler sends an event to its session.
CMSend(c) ==
    /\ cm.conns[c].pc = "open"
    /\ cm.conns[c].up
    /\ cm.lock = NoConn
    /\ cm' = mgr_send_event([cm EXCEPT !.last = NoLast], cm.conns[c].session)
    /\ UNCHANGED <<sessionVars, call>>

\* A turn of the handler fails: the graph raises, process_user_message sends
\* ERROR and sets the session row to FAILED; when that update raises too,
\* handle_websocket_messages sends ERROR once more.  The handler stays in its
\* receive loop.
TurnRaisedRecord(m, session_id, failed) ==
    [NoLast EXCEPT !.op = "turn_raised", !.session = session_id, !.failed = failed]

CMTurnRaises(c) ==
    /\ cm.conns[c].pc = "open"
    /\ cm.conns[c].up
    /\ cm.lock = NoConn
    /\ \E store_ok \in BOOLEAN :
         LET session_id == cm.conns[c].session
             m1 == mgr_send_event(cm, session_id)
             m2 == IF store_ok THEN m1 ELSE mgr_send_event(m1, session_id)
         IN  cm' = [m2 EXCEPT !.last = TurnRaisedRecord(cm, session_id, m1.last.failed)]
    /\ UNCHANGED <<sessionVars, call>>

\* The client closes its end of the channel.
CMClientClose(c) ==
    /\ cm.conns[c].pc \in {"greeting", "open"}
    /\ cm.conns[c].up
    /\ cm' = [cm EXCEPT !.conns[c].up = FALSE, !.last = NoLast]
    /\ UNCHANGED <<sessionVars, call>>

\* receive_json raises WebSocketDisconnect: the endpoint calls
\* manager.disconnect(session_id).
CMReceiveClosed(c) ==
    /\ cm.conns[c].pc = "open"
    /\ ~cm.conns[c].up
    /\ cm.lock = NoConn
    /\ cm' = mgr_disconnect([cm EXCEPT !.conns[c].pc = "closed", !.last = NoLast],
                            cm.conns[c].session)
    /\ UNCHANGED <<sessionVars, call>>

\* The client sends DISCONNECT: the handler leaves its loop and the endpoint
\* returns without calling manager.disconnect; the server closes the channel.
CMClientDisconnect(c) ==
    /\ cm.conns[c].pc = "open"
    /\ cm.conns[c].up
    /\ cm' = [cm EXCEPT !.conns[c].pc = "closed", !.conns[c].up = FALSE,
                        !.last = NoLast]
    /\ UNCHANGED <<sessionVars, call>>

\* _heartbeat_loop after its sleep: PING when the session is registered,
\* then the loop condition.
heartbeat_loop(m, c) ==
    LET session_id == m.tasks[c].session
        m1 == mgr_send_event(m, session_id)
    IN  IF m1.tasks[c].pc = "cancelled"
        THEN m1
        ELSE IF m1.active_connections[session_id] # NoConn
        THEN [m1 EXCEPT !.tasks[c].timer = HeartbeatInterval]
        ELSE [m1 EXCEPT !.tasks[c].pc = "exited", !.tasks[c].timer = 0]

HeartbeatWake(c) ==
    /\ cm.tasks[c].pc = "sleeping"
    /\ cm.tasks[c].timer = 0
    /\ cm.lock = NoConn
    /\ cm' = heartbeat_loop([cm EXCEPT !.last = NoLast], c)
    /\ UNCHANGED <<sessionVars, call>>

RECURSIVE DisconnectAll(_, _)
DisconnectAll(m, stale_sessions) ==
    IF stale_sessions = {}
    THEN m
    ELSE LET session_id == CHOOSE s \in stale_sessions : TRUE
         IN  DisconnectAll(mgr_disconnect(m, session_id), stale_sessions \ {session_id})

StaleSessions(m, late) ==
    {s \in Sessions :
        /\ m.connection_metadata[s].present
        /\ \/ is_stale(m.connection_metadata[s], m.now)
           \/ is_heartbeat_overdue(m.connection_metadata[s], m.now, late)}

\* _cleanup_loop after its sleep: the sweep.
cleanup_loop(m, late) ==
    [DisconnectAll(m, StaleSessions(m, late))
        EXCEPT !.cleanup_task.timer = CleanupInterval,
               !.last = [NoLast EXCEPT !.op = "sweep",
                                       !.evicted = StaleSessions(m, late)]]

CleanupWake ==
    /\ cm.cleanup_task.pc = "sleeping"
    /\ cm.cleanup_task.timer = 0
    /\ cm.lock = NoConn
    /\ \E late \in BOOLEAN : cm' = cleanup_loop([cm EXCEPT !.last = NoLast], late)
    /\ UNCHANGED <<sessionVars, call>>

\* One heartbeat interval passes; a task whose sleep has ended runs first,
\* and so does a connect that is between its lock section and its return.
TimerDue(m) ==
    \/ m.cleanup_task.pc = "sleeping" /\ m.cleanup_task.timer = 0
    \/ \E c \in Conns : m.tasks[c].pc = "sleeping" /\ m.tasks[c].timer = 0
    \/ \E c \in Conns : m.conns[c].pc \in {"greeting", "rejecting"}

Tick ==
    /\ cm.now < MaxTicks
    /\ ~TimerDue(cm)
    /\ cm.lock = NoConn
    /\ cm' = [cm EXCEPT !.now = @ + 1,
                        !.last = NoLast,
                        !.cleanup_task.timer = IF @ > 0 THEN @ - 1 ELSE 0,
                        !.tasks = [c \in Conns |->
                                      [@[c] EXCEPT !.timer = IF @ > 0 THEN @ - 1 ELSE 0]]]
    /\ UNCHANGED <<sessionVars, call>>

NextCM ==
    \/ \E c \in Conns, s \in Sessions : CMConnect(c, s)
    \/ \E c \in Conns : CMReject(c)
    \/ \E c \in Conns : CMGreet(c)
    \/ \E c \in Conns : CMPong(c)
    \/ \E c \in Conns : CMSend(c)
    \/ \E c \in Conns : CMTurnRaises(c)
    \/ \E c \in Conns : CMClientClose(c)
    \/ \E c \in Conns : CMReceiveClosed(c)
    \/ \E c \in Conns : CMClientDisconnect(c)
    \/ \E c \in Conns : HeartbeatWake(c)
    \/ CleanupWake
    \/ Tick

InitCM == Init /\ mock = FALSE

SpecCM == InitCM /\ [][NextCM]_vars

CMTypeOK == cm.now \in 0..MaxTicks

(***************************************************************************)
(* C12.  The number of registered connections never exceeds the configured *)
(* maximum: a connect attempted while the registry holds the maximum is    *)
(* rejected, its channel is closed and nothing of it is registered.        *)
(***************************************************************************)
NothingRegistered(m, c) ==
    /\ \A s \in Sessions : m.active_connections[s] # c /\ m.heartbeat_tasks[s] # c
    /\ m.tasks[c].pc = "none"

C12_ConnectionLimit ==
    /\ Cardinality(Registered(cm)) <= MaxConnections
    /\ \A c \in Conns :
          /\ cm.conns[c].pc \in {"rejecting", "rejected"} => NothingRegistered(cm, c)
          /\ cm.conns[c].pc = "rejected" => ~cm.conns[c].up

\* Witness: the registry is full and a connect has been rejected.
C12_Witness ==
    /\ Cardinality(Registered(cm)) = MaxConnections
    /\ \E c \in Conns : cm.conns[c].pc = "rejected"

(***************************************************************************)
(* C13.  When the transport fails while send_event delivers an event, the  *)
(* session is force-disconnected: right after the call it is absent from   *)
(* the registry and from the metadata map, and its heartbeat task is       *)
(* cancelled and removed.                                                  *)
(***************************************************************************)
C13_SendFailureDisconnects ==
    (cm.last.op = "send_event" /\ cm.last.failed) =>
        /\ cm.active_connections[cm.last.session] = NoConn
        /\ ~cm.connection_metadata[cm.last.session].present
        /\ cm.heartbeat_tasks[cm.last.session] = NoConn
        /\ cm.last.task # NoConn
        /\ cm.tasks[cm.last.task].pc = "cancelled"

\* Witness: a send_event has just failed on a session that had a heartbeat task.
C13_Witness ==
    /\ cm.last.op = "send_event"
    /\ cm.last.failed
    /\ cm.last.task # NoConn

(***************************************************************************)
(* C14.  disconnect is idempotent: a second call, or a call for a session  *)
(* that is not registered, raises nothing and leaves the registry, the     *)
(* metadata map and the heartbeat-task map as they were.                   *)
(***************************************************************************)
Maps(m) == <<m.active_connections, m.connection_metadata, m.heartbeat_tasks, m.tasks>>

C14_DisconnectIdempotent ==
    \A s \in Sessions :
        LET once == mgr_disconnect(cm, s)
            twice == mgr_disconnect(once, s)
        IN  /\ ~once.raised /\ ~twice.raised
            /\ Maps(twice) = Maps(once)
            /\ s \notin Registered(cm) => Maps(once) = Maps(cm)

\* Witness: a session that was connected is no longer registered while
\* another one is.
C14_Witness ==
    /\ \E c \in Conns : cm.conns[c].pc = "closed" /\ cm.conns[c].session \notin Registered(cm)
    /\ Registered(cm) # {}

(***************************************************************************)
(* C15.  A registered channel that has missed its heartbeat for two        *)
(* intervals is disconnected by the next cleanup sweep, and after the      *)
(* eviction no registry entry and no heartbeat loop of that session        *)
(* remains.                                                                *)
(***************************************************************************)
HeartbeatLoops(m, s) ==
    {c \in Conns : m.tasks[c].pc = "sleeping" /\ m.tasks[c].session = s}

EvictedInTime ==
    \A s \in Sessions :
        cm.connection_metadata[s].present =>
            cm.now - cm.connection_metadata[s].last_heartbeat
                <= OverdueFactor * HeartbeatInterval + CleanupInterval

C15_EvictionReleases ==
    /\ EvictedInTime
    /\ cm.last.op = "sweep" =>
          \A s \in cm.last.evicted :
              /\ s \notin Registered(cm)
              /\ HeartbeatLoops(cm, s) = {}

(***************************************************************************)
(* SpecCalls: the step functions done and rank_and_compose and the catalog *)
(* client's mapping of products, called on their own.                      *)
(***************************************************************************)
MaxNow == 3
MaxProducts == 11
MaxMixed == 3

TopN == 10
MissingPrice == 999999
NoPrice == -1
NoRating == -1

\* A product as the catalog service returns it: price and rating may be
\* missing.
SamePair == {[price |-> NoPrice, rating |-> 4], [price |-> 100, rating |-> 4]}

ProductData ==
    SamePair \cup {[price |-> 10, rating |-> NoRating], [price |-> 100, rating |-> 5]}

RECURSIVE ListsOver(_, _)
ListsOver(S, n) ==
    IF n = 0
    THEN {<< >>}
    ELSE LET shorter == ListsOver(S, n - 1)
         IN  shorter \cup {Append(l, x) : l \in {k \in shorter : Len(k) = n - 1}, x \in S}

CatalogResponses == ListsOver(SamePair, MaxProducts) \cup ListsOver(ProductData, MaxMixed)

map_price_keeps_missing(price_val) == price_val

\* CatalogServiceClient.search_products: price of a product.
map_price(price_val) == IF price_val # NoPrice THEN price_val ELSE 0

\* The ProductResult list of search_products; product_id is the position in
\* the response.
ProductResults(response) ==
    [i \in DOMAIN response |->
        [product_id |-> i, price |-> map_price(response[i].price),
         rating |-> response[i].rating]]

\* rank_score(a) >= rank_score(b), on the exact values of
\*   0.4 / (1 + price_val) + 0.6 * rating_val / 5
\*   = (10 + 3 * rating_val * (1 + price_val)) / (25 * (1 + price_val)).
price_val(product) == IF product.price # NoPrice THEN product.price ELSE MissingPrice

rating_val(product) == IF product.rating # NoRating THEN product.rating ELSE 0

ScoreGeq(a, b) ==
    IF price_val(a) = price_val(b)
    THEN rating_val(a) >= rating_val(b)
    ELSE (10 + 3 * rating_val(a) * (1 + price_val(a))) * (1 + price_val(b))
         >= (10 + 3 * rating_val(b) * (1 + price_val(b))) * (1 + price_val(a))

ScoreEq(a, b) == ScoreGeq(a, b) /\ ScoreGeq(b, a)

Reverse(seq) == [i \in DOMAIN seq |-> seq[Len(seq) + 1 - i]]

\* Stable ascending sort by score: an element goes behind its equals.
RECURSIVE InsertAscending(_, _)
InsertAscending(sorted, x) ==
    IF sorted = << >>
    THEN <<x>>
    ELSE IF ScoreGeq(x, sorted[Len(sorted)])
    THEN Append(sorted, x)
    ELSE Append(InsertAscending(SubSeq(sorted, 1, Len(sorted) - 1), x),
                sorted[Len(sorted)])

RECURSIVE SortAscending(_)
SortAscending(seq) ==
    IF seq = << >>
    THEN << >>
    ELSE InsertAscending(SortAscending(SubSeq(seq, 1, Len(seq) - 1)), seq[Len(seq)])

sorted_reversed_afterwards(products_list) == Reverse(SortAscending(products_list))

\* sorted(products_list, key=rank_score, reverse=True): the list is
\* reversed, sorted stably and reversed again.
sorted_by_rank_score(products_list) == Reverse(SortAscending(Reverse(products_list)))

Head10(seq) == SubSeq(seq, 1, IF Len(seq) < TopN THEN Len(seq) ELSE TopN)

\* ranked_results of rank_and_compose.
ranked_results(products_list) ==
    IF products_list = << >> THEN << >> ELSE Head10(sorted_by_rank_score(products_list))

\* The State Records done is called on, and the calls still to be made.
DoneInputs ==
    {[EmptyState EXCEPT !.stage = stage, !.user_message = "text",
                        !.ranked_results = results,
                        !.node_trace = <<"parse_input">>] :
        stage \in WorkflowStage, results \in {"empty", "some"}}

\* The State Records need_media_ops is called on, without and with media.
MediaInputs ==
    {[EmptyState EXCEPT !.stage = "initial", !.user_message = "text",
                        !.media_refs = media,
                        !.node_trace = <<"parse_input">>] :
        media \in {"none", "some"}}

(***************************************************************************)
(* BaseServiceClient._request under its tenacity decorator.  outcomes[i]   *)
(* is what the transport does on the i-th attempt.  The body turns every   *)
(* httpx exception into an error of the service's own hierarchy before it  *)
(* leaves the function; the decorator retries on the httpx exceptions      *)
(* only, and after the last attempt raises RetryError.                     *)
(***************************************************************************)
MaxOutcomes == 3
StopAfterAttempt == 3

TransportOutcomes == {"response", "timeout", "connect_error", "status_error"}

Retryable == {"timeout", "connect_error"}

request_body(outcome) ==
    CASE outcome = "response"      -> "response"
      [] outcome = "timeout"       -> "ServiceTimeoutError"
      [] outcome = "status_error"  -> "ServiceUnavailableError"
      [] outcome = "connect_error" -> "ServiceUnavailableError"

retry_if_exception_type(raised) ==
    raised \in {"httpx.TimeoutException", "httpx.ConnectError"}

RECURSIVE request(_, _)
request(outcomes, attempt) ==
    LET r == request_body(outcomes[attempt])
    IN  IF r = "response" \/ ~retry_if_exception_type(r)
        THEN [attempts |-> attempt, result |-> r]
        ELSE IF attempt >= StopAfterAttempt
        THEN [attempts |-> attempt, result |-> "RetryError"]
        ELSE request(outcomes, attempt + 1)

RequestInputs == [1..MaxOutcomes -> TransportOutcomes]

(***************************************************************************)
(* SessionRepository.update_session on the session table.  A row is the    *)
(* set of its attribute names, NoRow when the table has no item under the  *)
(* key.  update_item carries no ConditionExpression: DynamoDB creates the  *)
(* item when it is missing.  get_session then builds a SessionState from   *)
(* the item and reads item['user_id'], item['workflow_stage'],             *)
(* item['created_at'] and item['updated_at'] without a default.            *)
(***************************************************************************)
SessionIds == {"s1", "s2"}

NoRow == {}

CreatedRow ==
    {"pk", "sk", "user_id", "workflow_stage", "request_type",
     "clarification_count", "created_at", "updated_at", "ttl"}

UpdateKeys == {"workflow_stage", "last_message", "user_id"}

RequiredAttrs == {"user_id", "workflow_stage", "created_at", "updated_at"}

get_session(store, session_id) ==
    IF store[session_id] = NoRow THEN "None"
    ELSE IF ~(RequiredAttrs \subseteq store[session_id]) THEN "KeyError"
    ELSE "SessionState"

update_item(store, session_id, names) ==
    [store EXCEPT ![session_id] = @ \cup {"pk", "sk"} \cup names]

update_session(store, session_id, updates) ==
    LET names == updates \cup {"updated_at"}
        stored == update_item(store, session_id, names)
    IN  [store |-> stored, result |-> get_session(stored, session_id)]

Stores == [SessionIds -> {NoRow, CreatedRow}]

UpdateInputs ==
    {[NoCall EXCEPT !.op = "to_update_session", !.store = st,
                    !.session_id = sid, !.updates = u] :
        st \in Stores, sid \in SessionIds, u \in SUBSET UpdateKeys}

PendingCalls ==
    {[NoCall EXCEPT !.op = "to_rank", !.raw = response] : response \in CatalogResponses}
    \cup {[NoCall EXCEPT !.op = "to_done", !.before = state] : state \in DoneInputs}
    \cup {[NoCall EXCEPT !.op = "to_need_media_ops", !.before = state, !.env = llm] :
            state \in MediaInputs, llm \in Outcomes("need_media_ops")}
    \cup {[NoCall EXCEPT !.op = "to_request", !.outcomes = o] : o \in RequestInputs}
    \cup UpdateInputs

InitCalls ==
    /\ mock = FALSE
    /\ checkpoint = EmptyState
    /\ hs = [c \in Channels |-> InitHandler]
    /\ active = NoChan
    /\ wsOpen = [c \in Channels |-> FALSE]
    /\ nturns = 0
    /\ faults = 0
    /\ committed = {}
    /\ cm = ManagerInit
    /\ call \in PendingCalls

\* done is called on a State Record at time now.
CallDone ==
    /\ call.op = "to_done"
    /\ \E now \in 1..MaxNow :
         call' = [call EXCEPT !.op = "done", !.after = done(call.before, now)]
    /\ UNCHANGED <<sessionVars, cm>>

\* done is called again on the State Record it returned, not earlier than
\* the first time.
CallDoneAgain ==
    /\ call.op = "done"
    /\ \E now \in 1..MaxNow :
         /\ now >= call.after.completed_at
         /\ call' = [call EXCEPT !.op = "done_again", !.before = call.after,
                                 !.after = done(call.after, now)]
    /\ UNCHANGED <<sessionVars, cm>>

\* search_products maps the catalog's response and rank_and_compose ranks
\* the products.
CallRank ==
    /\ call.op = "to_rank"
    /\ call' = [call EXCEPT !.op = "rank",
                            !.products = ProductResults(call.raw),
                            !.ranked = ranked_results(ProductResults(call.raw))]
    /\ UNCHANGED <<sessionVars, cm>>

\* need_media_ops is called on a State Record; the language model, when
\* consulted, answers call.env.
CallNeedMediaOps ==
    /\ call.op = "to_need_media_ops"
    /\ call' = [call EXCEPT !.op = "need_media_ops",
                            !.after = need_media_ops(call.before, mock, call.env)]
    /\ UNCHANGED <<sessionVars, cm>>

\* _request is called; the transport behaves as call.outcomes says.
CallRequest ==
    /\ call.op = "to_request"
    /\ LET r == request(call.outcomes, 1)
       IN  call' = [call EXCEPT !.op = "request", !.attempts = r.attempts,
                                !.result = r.result]
    /\ UNCHANGED <<sessionVars, cm>>

\* update_session is called with the attributes call.updates on the table
\* call.store.
CallUpdateSession ==
    /\ call.op = "to_update_session"
    /\ LET r == update_session(call.store, call.session_id, call.updates)
       IN  call' = [call EXCEPT !.op = "update_session", !.result = r.result,
                                !.raw = <<r.store>>]
    /\ UNCHANGED <<sessionVars, cm>>

NextCalls ==
    \/ CallDone
    \/ CallDoneAgain
    \/ CallRank
    \/ CallNeedMediaOps
    \/ CallRequest
    \/ CallUpdateSession

SpecCalls == InitCalls /\ [][NextCalls]_vars

(***************************************************************************)
(* C16.  Calling done again on a State Record that is already COMPLETED is *)
(* a no-op: completed_at keeps the value of the first call and no other    *)
(* field changes.                                                          *)
(***************************************************************************)
C16_DoneIdempotent ==
    (call.op = "done_again" /\ call.before.stage = "completed")
    => call.after = call.before

(***************************************************************************)
(* C17.  For a non-empty candidate list rank_and_compose returns the       *)
(* candidates by non-increasing score, the first 10 of them, candidates of *)
(* equal score in their original order; the result holds input candidates  *)
(* only, each at most once.                                                *)
(***************************************************************************)
RanksBefore(a, b) ==
    /\ ScoreGeq(a, b)
    /\ ScoreEq(a, b) => a.product_id < b.product_id

C17_RankedOrder ==
    (call.op = "rank" /\ call.products # << >>) =>
        LET products == call.products
            ranked == call.ranked
            chosen == {ranked[i].product_id : i \in DOMAIN ranked}
        IN  /\ Len(ranked) = IF Len(products) < TopN THEN Len(products) ELSE TopN
            /\ \A i \in DOMAIN ranked :
                  /\ ranked[i].product_id \in DOMAIN products
                  /\ ranked[i] = products[ranked[i].product_id]
            /\ \A i, j \in DOMAIN ranked : i < j => RanksBefore(ranked[i], ranked[j])
            /\ \A i \in DOMAIN ranked, k \in DOMAIN products :
                  k \notin chosen => RanksBefore(ranked[i], products[k])

\* Witness: more than 10 candidates, of two different scores, were ranked.
C17_Witness ==
    /\ call.op = "rank"
    /\ Len(call.products) > TopN
    /\ \E i, j \in DOMAIN call.products : ~ScoreEq(call.products[i], call.products[j])
    /\ ScoreEq(call.ranked[1], call.ranked[2])

(***************************************************************************)
(* C18.  A catalog product that arrives without a price is ranked as if    *)
(* its price were infinite: of two products with equal rating the one with *)
(* the missing price never ranks above the one with a known price.         *)
(***************************************************************************)
C18_MissingPriceLast ==
    call.op = "rank" =>
        \A i, j \in DOMAIN call.ranked :
            LET a == call.raw[call.ranked[i].product_id]
                b == call.raw[call.ranked[j].product_id]
            IN  (a.price = NoPrice /\ b.price # NoPrice /\ a.rating = b.rating)
                => j < i

(***************************************************************************)
(* C19.  Whenever the catalog answers a turn's search successfully with    *)
(* zero products, the turn ends with ranked_results = [], the no-match     *)
(* message as final_response, stage COMPLETED after RANKING, and no error  *)
(* recorded in the State Record.                                           *)
(***************************************************************************)
SearchedEmpty(h) ==
    /\ "search_marketplaces" \in Range(h.executed)
    /\ h.st.raw_search_results = "obj_empty"

C19_NoMatchTurn ==
    \A c \in Channels :
        (TurnEnded(hs[c]) /\ hs[c].outcome = "completed" /\ SearchedEmpty(hs[c]))
        => /\ hs[c].st.ranked_results = "empty"
           /\ hs[c].st.final_response = "no_match"
           /\ Before(hs[c].executed, "rank_and_compose", "done")
           /\ hs[c].st.stage = "completed"
           /\ ~hs[c].st.error

(***************************************************************************)
(* C20.  When need_clarify runs with clarification_count = 2 on a          *)
(* requirement that is missing or fails the guardrail, it leaves           *)
(* needs_clarification false and stage SEARCHING, and the step executed    *)
(* next is search_marketplaces, never ask_clarifying_q.                    *)
(***************************************************************************)
DecidedAtCap(h) ==
    /\ h.executed # << >>
    /\ Last(h.executed) = "need_clarify"
    /\ h.st.clarification_count = ClarifyCap
    /\ Incomplete(h.st.requirement_spec)

C20_CapForcesSearch ==
    /\ [](\A c \in Channels :
            DecidedAtCap(hs[c])
            => /\ ~hs[c].st.needs_clarification
               /\ hs[c].st.stage = "searching"
               /\ hs[c].next = "search_marketplaces")
    /\ [][\A c \in Channels :
            (DecidedAtCap(hs[c]) /\ Len(hs'[c].executed) = Len(hs[c].executed) + 1)
            => Last(hs'[c].executed) = "search_marketplaces"]_vars

\* Witness: search_marketplaces has run right after need_clarify decided at
\* the cap on a requirement that fails the guardrail.
C20_Witness ==
    /\ Len(hs[1].executed) >= 2
    /\ Last(hs[1].executed) = "search_marketplaces"
    /\ hs[1].executed[Len(hs[1].executed) - 1] = "need_clarify"
    /\ hs[1].st.clarification_count = ClarifyCap
    /\ Incomplete(hs[1].st.requirement_spec)
    /\ "ask_clarifying_q" \notin Range(hs[1].executed)

(***************************************************************************)
(* C21.  When need_clarify runs with clarification_count below the cap on  *)
(* a requirement with an empty product_type or with none of price bound,   *)
(* brand preference, rating floor, condition, attribute, it sets           *)
(* needs_clarification and stage CLARIFICATION whatever the language model *)
(* would answer, and the step executed next is ask_clarifying_q.  (The     *)
(* missing requirement is the case of C20 and C29.)                        *)
(***************************************************************************)
FailsGuardrail(spec) ==
    spec.present /\ (spec.product_type = "" \/ ~has_meaningful_constraint(spec))

DecidedBelowCap(h) ==
    /\ h.executed # << >>
    /\ Last(h.executed) = "need_clarify"
    /\ h.st.clarification_count < ClarifyCap
    /\ FailsGuardrail(h.st.requirement_spec)

C21_GuardrailFirst ==
    /\ [](\A c \in Channels :
            DecidedBelowCap(hs[c])
            => /\ hs[c].st.needs_clarification
               /\ hs[c].st.stage = "clarification"
               /\ hs[c].next = "ask_clarifying_q")
    /\ [][\A c \in Channels :
            (DecidedBelowCap(hs[c]) /\ Len(hs'[c].executed) = Len(hs[c].executed) + 1)
            => Last(hs'[c].executed) = "ask_clarifying_q"]_vars

\* Witness: ask_clarifying_q has run right after need_clarify decided on a
\* requirement with a product_type and no constraint.
C21_Witness ==
    /\ Len(hs[1].executed) >= 2
    /\ Last(hs[1].executed) = "ask_clarifying_q"
    /\ hs[1].executed[Len(hs[1].executed) - 1] = "need_clarify"
    /\ hs[1].st.requirement_spec.present
    /\ hs[1].st.requirement_spec.product_type # ""
    /\ ~has_meaningful_constraint(hs[1].st.requirement_spec)

(***************************************************************************)
(* SpecEngine: the session's graph thread driven by the message handler    *)
(* and by the engine's own entry points invoke_buyer_flow and              *)
(* resume_buyer_flow, one run at a time.  ainvoke returns when the run has *)
(* reached END or raised.                                                  *)
(***************************************************************************)
MaxEngineTurns == 3
MaxEngineFaults == 0

\* initial_state of invoke_buyer_flow laid over the checkpointed channels.
invoke_input(saved, msg, media) ==
    [saved EXCEPT !.user_message = msg,
                  !.media_refs = media,
                  !.node_trace = << >>,
                  !.clarification_count = 0]

\* update_state of resume_buyer_flow laid over the checkpointed channels.
resume_input(saved, msg) ==
    [saved EXCEPT !.user_message = msg,
                  !.needs_clarification = FALSE]

\* The runs of the compiled graph from a node on: the State Record last
\* checkpointed, the nodes executed, the number of collaborator calls that
\* failed, and whether the run raised.
RECURSIVE ainvoke(_, _, _, _, _, _)
ainvoke(node, state, executed, mockmode, now, nfail) ==
    UNION {
        IF NodeRaises(node, env)
        THEN {[st |-> state, executed |-> Append(executed, node),
               faults |-> nfail + FaultsOf(env), raised |-> TRUE]}
        ELSE LET output == ExecNode(node, state, mockmode, env, now)
                 target == build_buyer_flow_graph(node, output)
             IN  IF target = END
                 THEN {[st |-> output, executed |-> Append(executed, node),
                        faults |-> nfail + FaultsOf(env), raised |-> FALSE]}
                 ELSE ainvoke(target, output, Append(executed, node), mockmode, now,
                              nfail + FaultsOf(env))
        : env \in {e \in Outcomes(node) : nfail + FaultsOf(e) <= MaxEngineFaults}}

CommittedAfter(run) ==
    IF run.raised
    THEN committed \cup {run.executed[i] : i \in 1..(Len(run.executed) - 1)}
    ELSE IF Last(run.executed) = "done"
    THEN {}
    ELSE committed \cup {run.executed[i] : i \in DOMAIN run.executed}

NoRunInFlight == \A c \in Channels : hs[c].pc # "instep"

EngineRun(op, input) ==
    /\ NoRunInFlight
    /\ nturns < MaxEngineTurns
    /\ nturns' = nturns + 1
    /\ \E run \in ainvoke(EntryPoint, input, << >>, mock, nturns, faults) :
         /\ checkpoint' = run.st
         /\ committed' = CommittedAfter(run)
         /\ faults' = run.faults
         /\ call' = [NoCall EXCEPT !.op = op]
    /\ UNCHANGED <<cm, mock, hs, active, wsOpen>>

InvokeBuyerFlow ==
    \E msg \in Messages, media \in {"none", "some"} :
        EngineRun("invoke_buyer_flow", invoke_input(checkpoint, msg, media))

\* The session has been started before.
ResumeBuyerFlow ==
    /\ checkpoint.user_message # ""
    /\ \E msg \in Messages :
        EngineRun("resume_buyer_flow", resume_input(checkpoint, msg))

NextEngine ==
    \/ Connect(1, MaxEngineFaults)
    \/ TurnStart(1, MaxEngineTurns, MaxEngineFaults)
    \/ StepEnd(1, MaxEngineFaults)
    \/ InvokeBuyerFlow
    \/ ResumeBuyerFlow

SpecEngine == Init /\ [][NextEngine]_vars

(***************************************************************************)
(* C22.  clarification_count never decreases within a session: across any  *)
(* sequence of turns on the session_id, started by the message handler, by *)
(* invoke_buyer_flow or by resume_buyer_flow, its value in the State       *)
(* Record never becomes smaller than a value it held before.               *)
(***************************************************************************)
C22_CountMonotonic ==
    [][checkpoint'.clarification_count >= checkpoint.clarification_count]_vars

(***************************************************************************)
(* C23.  node_trace is append-only and never pruned for the life of a      *)
(* session: after any step and after the start of any new turn, the        *)
(* node_trace held before is a prefix of the node_trace held after.        *)
(***************************************************************************)
IsPrefix(s, t) == Len(s) <= Len(t) /\ SubSeq(t, 1, Len(s)) = s

C23_TraceAppendOnly ==
    [][IsPrefix(checkpoint.node_trace, checkpoint'.node_trace)]_vars

(***************************************************************************)
(* C24.  A failure of one session's turn, an exception raised by the graph *)
(* or a send failure on its channel, leaves every other session untouched: *)
(* their registry entries, metadata and heartbeat tasks are unchanged; and  *)
(* the message loop of the failing session goes on receiving.              *)
(***************************************************************************)
TurnFailed(m) ==
    \/ m.last.op = "turn_raised"
    \/ m.last.op = "send_event" /\ m.last.failed

OthersUntouched(m, n, session_id) ==
    /\ \A s \in Sessions \ {session_id} :
          /\ n.active_connections[s] = m.active_connections[s]
          /\ n.connection_metadata[s] = m.connection_metadata[s]
          /\ n.heartbeat_tasks[s] = m.heartbeat_tasks[s]
    /\ \A c \in Conns : m.tasks[c].session # session_id => n.tasks[c] = m.tasks[c]

C24_FailureIsolated ==
    [][TurnFailed(cm')
        => /\ OthersUntouched(cm, cm', cm'.last.session)
           /\ \A c \in Conns : cm.conns[c].pc = "open" => cm'.conns[c].pc = "open"]_vars

\* Witness: a turn of a session has raised and its ERROR could not be sent,
\* while another session is registered and the handler is in its loop.
C24_Witness ==
    /\ cm.last.op = "turn_raised"
    /\ cm.last.failed
    /\ \E s \in Sessions \ {cm.last.session} : cm.active_connections[s] # NoConn
    /\ \E c \in Conns :
          /\ cm.conns[c].session = cm.last.session
          /\ cm.conns[c].pc = "open"
          /\ cm.conns[c].up

(***************************************************************************)
(* C25.  After ask_clarifying_q completes the run is suspended: no further *)
(* step of the session executes and its State Record stays as it is until  *)
(* a client message arrives; only that message starts the next run.        *)
(***************************************************************************)
Paused(h) ==
    /\ h.executed # << >>
    /\ Last(h.executed) = "ask_clarifying_q"
    /\ h.outcome = "paused"

MaxResumeTurns == 2
MaxResumeFaults == 0

NextResume ==
    \E c \in Channels :
        \/ Connect(c, MaxResumeFaults)
        \/ TurnStart(c, MaxResumeTurns, MaxResumeFaults)
        \/ StepEnd(c, MaxResumeFaults)

SpecResume == InitCM /\ [][NextResume]_vars

(***************************************************************************)
(* C26.  Incrementing clarification_count survives concurrent resume       *)
(* races: when the two handlers of the session have each executed          *)
(* ask_clarifying_q, overlapping or not, the resulting clarification_count *)
(* reflects both increments.                                               *)
(***************************************************************************)
Asked(h) == Paused(h) /\ h.st.clarifying_question = "text"

C26_NoLostIncrement ==
    (\A c \in Channels : Asked(hs[c]))
    => checkpoint.clarification_count >= Cardinality(Channels)

(***************************************************************************)
(* C27.  If the generation of the question fails inside ask_clarifying_q,  *)
(* clarification is skipped: clarifying_question is null, stage is         *)
(* SEARCHING and the same turn goes on to search_marketplaces instead of   *)
(* pausing, so no clarification event without a question is sent.          *)
(***************************************************************************)
AskFailed(h) ==
    /\ h.executed # << >>
    /\ Last(h.executed) = "ask_clarifying_q"
    /\ h.st.clarifying_question = "none"

C27_AskFailureSkips ==
    \A c \in Channels :
        AskFailed(hs[c])
        => /\ hs[c].st.stage = "searching"
           /\ hs[c].next = "search_marketplaces"
           /\ hs[c].pc = "instep"
           /\ "clarification" \notin Range(hs[c].log)

(***************************************************************************)
(* C28.  When media is attached and the language model answers that        *)
(* speech-to-text is needed, need_media_ops sets need_stt and the step     *)
(* executed next is transcribe_audio; need_stt is false only when no media *)
(* is attached, the model answers false, or the call of the model fails.   *)
(***************************************************************************)
C28_SpeechToTextRequested ==
    call.op = "need_media_ops" =>
        /\ (call.before.media_refs # "none" /\ call.env.ok /\ call.env.need_stt)
           => /\ call.after.need_stt
              /\ build_buyer_flow_graph("need_media_ops", call.after) = "transcribe_audio"
        /\ ~call.after.need_stt
           => \/ call.before.media_refs = "none"
              \/ ~call.env.need_stt
              \/ ~call.env.ok

(***************************************************************************)
(* C29.  When the call of the catalog fails in search_marketplaces, the    *)
(* step records the error and sets raw_search_results to the empty list,   *)
(* and the run still executes rank_and_compose and done (a step of         *)
(* search_marketplaces with a requirement in which a collaborator call     *)
(* fails is the catalog failing: it calls nothing else); when the          *)
(* requirement is missing, the step sets stage FAILED and error, and       *)
(* leaves raw_search_results as it was: the catalog is not asked.          *)
(***************************************************************************)
Searching(h) == h.pc = "instep" /\ h.next = "search_marketplaces"

JustSearched(h, k) == k.executed = Append(h.executed, "search_marketplaces")

CatalogFailed(h) ==
    /\ "search_marketplaces" \in Range(h.executed)
    /\ h.st.raw_search_results = "list_empty"

C29_SearchFailureContinues ==
    /\ [](\A c \in Channels :
            CatalogFailed(hs[c])
            => /\ hs[c].st.error
               /\ Last(hs[c].executed) = "search_marketplaces"
                  => hs[c].pc = "instep" /\ hs[c].next = "rank_and_compose"
               /\ Last(hs[c].executed) = "rank_and_compose"
                  => hs[c].pc = "instep" /\ hs[c].next = "done"
               /\ Last(hs[c].executed) \in {"search_marketplaces", "rank_and_compose", "done"})
    /\ [][\A c \in Channels :
            (Searching(hs[c]) /\ JustSearched(hs[c], hs'[c])
                /\ hs[c].st.requirement_spec.present
                /\ faults' > faults)
            => /\ hs'[c].st.error
               /\ hs'[c].st.raw_search_results = "list_empty"
               /\ hs'[c].pc = "instep"
               /\ hs'[c].next = "rank_and_compose"]_vars
    /\ [][\A c \in Channels :
            (Searching(hs[c]) /\ JustSearched(hs[c], hs'[c])
                /\ ~hs[c].st.requirement_spec.present)
            => /\ hs'[c].st.stage = "failed"
               /\ hs'[c].st.error
               /\ hs'[c].st.raw_search_results = hs[c].st.raw_search_results]_vars

\* Witness: the catalog failed and the run has gone on through
\* rank_and_compose to done.
C29_Witness ==
    /\ CatalogFailed(hs[1])
    /\ hs[1].st.requirement_spec.present
    /\ Last(hs[1].executed) = "done"
    /\ Before(hs[1].executed, "search_marketplaces", "rank_and_compose")

(***************************************************************************)
(* C30.  When build_requirement uses the deterministic fallback instead of  *)
(* the language model (settings.use_mock_services), the step succeeds: the  *)
(* requirement is set with a non-empty product_type, one snapshot is        *)
(* appended to requirement_history, stage is REQUIREMENT_BUILDING and no    *)
(* error is recorded.                                                       *)
(***************************************************************************)
C30_FallbackSucceeds ==
    [][\A c \in Channels :
        (mock /\ hs[c].pc = "instep" /\ hs[c].next = "build_requirement"
              /\ hs'[c].executed = Append(hs[c].executed, "build_requirement")
              /\ ~hs[c].st.error)
        => /\ hs'[c].st.requirement_spec.present
           /\ hs'[c].st.requirement_spec.product_type # ""
           /\ hs'[c].st.requirement_history = hs[c].st.requirement_history + 1
           /\ hs'[c].st.stage = "requirement_building"
           /\ ~hs'[c].st.error]_vars

(***************************************************************************)
(* C31.  A request through BaseServiceClient._request that times out or    *)
(* cannot connect is retried: the failure reaches the caller only after 3  *)
(* attempts, and a success on a later attempt is the call's result.        *)
(***************************************************************************)
C31_RequestRetried ==
    call.op = "request" =>
        /\ (call.result # "response"
              /\ \A i \in 1..call.attempts : call.outcomes[i] \in Retryable)
           => call.attempts = StopAfterAttempt
        /\ (call.outcomes[1] \in Retryable /\ call.outcomes[2] = "response")
           => call.result = "response" /\ call.attempts = 2

(***************************************************************************)
(* C32.  update_session on a session_id with no row in the session table   *)
(* raises SessionNotFoundError and creates no row: the table is as before. *)
(***************************************************************************)
C32_UpdateMissingSession ==
    (call.op = "update_session" /\ call.store[call.session_id] = NoRow)
    => /\ call.result = "SessionNotFoundError"
       /\ call.raw[1] = call.store

(***************************************************************************)
(* C33.  Whenever need_media_ops decides need_vision = true for a turn     *)
(* (media is attached and the language model's answer says so), the State  *)
(* Record it leaves has need_vision = true and the steps that follow it,   *)
(* up to build_requirement, include extract_image_attrs, also when         *)
(* need_stt is false.                                                      *)
(***************************************************************************)
\* The steps the graph's edges select after need_media_ops returned state,
\* up to build_requirement; transcribe_audio leaves need_vision as it is.
MediaRoute(state) ==
    LET first == build_buyer_flow_graph("need_media_ops", state)
        second == IF first = "build_requirement" THEN << >>
                  ELSE <<build_buyer_flow_graph(first, state)>>
        third == IF second = << >> \/ second[1] = "build_requirement" THEN << >>
                 ELSE <<build_buyer_flow_graph(second[1], state)>>
    IN  <<first>> \o second \o third

C33_VisionBeforeRequirement ==
    (call.op = "need_media_ops" /\ call.before.media_refs # "none"
        /\ call.env.ok /\ call.env.need_vision)
    => /\ call.after.need_vision
       /\ Before(MediaRoute(call.after), "extract_image_attrs", "build_requirement")

(***************************************************************************)
(* C34.  In every reachable state of the ConnectionManager at most one     *)
(* heartbeat loop runs per session_id, and every running heartbeat loop is *)
(* the task recorded in the heartbeat-task map for a registered session,   *)
(* also after a second connect with a session_id that is registered.       *)
(***************************************************************************)
C34_OneHeartbeatLoop ==
    \A s \in Sessions :
        /\ Cardinality(HeartbeatLoops(cm, s)) <= 1
        /\ \A c \in HeartbeatLoops(cm, s) :
              cm.heartbeat_tasks[s] = c /\ s \in Registered(cm)

(***************************************************************************)
(* C35.  The end of one channel never unregisters a different channel:     *)
(* when two channels were opened with the same session_id and the older    *)
(* one closes or errors, the newer channel stays registered with its       *)
(* metadata and its heartbeat loop.                                        *)
(***************************************************************************)
\* Channel c, served by a handler, ends in this step while the session_id
\* it was opened with is registered to the other channel d.
OlderEnds(m, n, c, d) ==
    /\ c # d
    /\ m.conns[c].pc = "open"
    /\ n.conns[c].pc = "closed"
    /\ m.conns[d].session = m.conns[c].session
    /\ m.active_connections[m.conns[c].session] = d

StaysRegistered(m, n, d) ==
    LET s == m.conns[d].session
    IN  /\ n.active_connections[s] = d
        /\ n.connection_metadata[s] = m.connection_metadata[s]
        /\ n.heartbeat_tasks[s] = m.heartbeat_tasks[s]
        /\ n.tasks[d] = m.tasks[d]

C35_CloseKeepsOtherChannel ==
    [][\A c, d \in Conns :
          OlderEnds(cm, cm', c, d) => StaysRegistered(cm, cm', d)]_vars

(***************************************************************************)
(* C36.  A rejected connect leaves the ConnectionManager's state           *)
(* unchanged: every session registered before the refused attempt is       *)
(* registered afterwards with the same channel, metadata and heartbeat     *)
(* task, also the session with the session_id of the refused attempt.      *)
(***************************************************************************)
\* A step of the refused attempt of channel c: the limit check under the
\* lock, or the close, the exception and what the endpoint does with it.
RefusedStep(m, n, c) ==
    \/ m.conns[c].pc = "new" /\ n.conns[c].pc = "rejecting"
    \/ m.conns[c].pc = "rejecting" /\ n.conns[c].pc = "rejected"

C36_RejectedConnectChangesNothing ==
    [][\A c \in Conns :
          RefusedStep(cm, cm', c) => Maps(cm') = Maps(cm)]_vars

(***************************************************************************)
(* SpecBusy: one client that answers every PING with a PONG at once and    *)
(* never closes, and a handler whose turns take time.  The handler reads   *)
(* the channel in handle_websocket_messages only: while it awaits          *)
(* process_user_message the PONGs wait in the channel; between turns it    *)
(* handles a PONG before any time passes.                                  *)
(***************************************************************************)
BusyConn == 1

\* receive_json returns MESSAGE or ANSWER: the handler awaits the turn.
TurnBegin(c) ==
    /\ cm.conns[c].pc = "open"
    /\ cm.conns[c].inbox = 0
    /\ cm' = [cm EXCEPT !.conns[c].pc = "inturn", !.last = NoLast]
    /\ UNCHANGED <<sessionVars, call>>

\* The turn sends an event to its session.
TurnSend(c) ==
    /\ cm.conns[c].pc = "inturn"
    /\ cm.lock = NoConn
    /\ cm' = mgr_send_event([cm EXCEPT !.last = NoLast], cm.conns[c].session)
    /\ UNCHANGED <<sessionVars, call>>

\* process_user_message returns: the handler is back at receive_json.
TurnEnd(c) ==
    /\ cm.conns[c].pc = "inturn"
    /\ cm' = [cm EXCEPT !.conns[c].pc = "open", !.last = NoLast]
    /\ UNCHANGED <<sessionVars, call>>

\* _heartbeat_loop after its sleep; the client answers a delivered PING
\* with a PONG.
HeartbeatAnswered(c) ==
    /\ cm.tasks[c].pc = "sleeping"
    /\ cm.tasks[c].timer = 0
    /\ cm.lock = NoConn
    /\ LET session_id == cm.tasks[c].session
           to == cm.active_connections[session_id]
           m1 == heartbeat_loop([cm EXCEPT !.last = NoLast], c)
       IN  cm' = IF SendResult(cm, session_id)
                 THEN [m1 EXCEPT !.conns[to].inbox = @ + 1]
                 ELSE m1
    /\ UNCHANGED <<sessionVars, call>>

\* receive_json returns PONG: metadata.update_heartbeat().
HandlePong(c) ==
    /\ cm.conns[c].pc = "open"
    /\ cm.conns[c].inbox > 0
    /\ cm' = [cm EXCEPT !.conns[c].inbox = @ - 1,
                        !.connection_metadata[cm.conns[c].session] =
                            IF @.present THEN [@ EXCEPT !.last_heartbeat = cm.now]
                            ELSE @,
                        !.last = NoLast]
    /\ UNCHANGED <<sessionVars, call>>

\* One heartbeat interval passes; a handler at receive_json has emptied the
\* channel before.
BusyTick ==
    /\ \A c \in Conns : ~(cm.conns[c].pc = "open" /\ cm.conns[c].inbox > 0)
    /\ Tick

NextBusy ==
    \/ CMConnect(BusyConn, "s1")
    \/ CMGreet(BusyConn)
    \/ TurnBegin(BusyConn)
    \/ TurnSend(BusyConn)
    \/ TurnEnd(BusyConn)
    \/ HeartbeatAnswered(BusyConn)
    \/ HandlePong(BusyConn)
    \/ CleanupWake
    \/ BusyTick

SpecBusy == InitCM /\ [][NextBusy]_vars

(***************************************************************************)
(* C37.  A client that answers every PING with a PONG is never evicted by  *)
(* the cleanup sweep, also while a turn of its session is in flight.       *)
(***************************************************************************)
C37_PongingClientKept ==
    /\ cm.last.op = "sweep" => cm.last.evicted = {}
    /\ cm.conns[BusyConn].pc \in {"open", "inturn"}
       => cm.active_connections[cm.conns[BusyConn].session] = BusyConn

(***************************************************************************)
(* C38.  When connect returns without raising, the session is registered:  *)
(* it is in the connection registry and in the metadata map, a heartbeat   *)
(* loop runs for it, and the CONNECTED confirmation was sent on the        *)
(* channel.                                                                *)
(***************************************************************************)
\* connect of channel c returns in this step: it had registered the channel
\* and now comes back from sending CONNECTED.
ConnectReturns(m, n, c) ==
    /\ m.conns[c].pc = "greeting"
    /\ n.conns[c].pc = "open"
    /\ m.active_connections[m.conns[c].session] = c

C38_ConnectRegisters ==
    [][\A c \in Conns :
          ConnectReturns(cm, cm', c)
          => LET s == cm.conns[c].session
             IN  /\ cm'.active_connections[s] = c
                 /\ cm'.connection_metadata[s].present
                 /\ cm'.heartbeat_tasks[s] = c
                 /\ cm'.tasks[c].pc = "sleeping"
                 /\ cm'.last.op = "send_event" /\ ~cm'.last.failed]_vars

(***************************************************************************)
(* SpecStop: the ConnectionManager as in SpecCM, with shutdown: the        *)
(* cleanup task is cancelled and every registered session disconnected.    *)
(* Handlers and heartbeat tasks that are still running go on afterwards.   *)
(***************************************************************************)
shutdown(m) ==
    [DisconnectAll(m, Registered(m))
        EXCEPT !.cleanup_task = [pc |-> "none", timer |-> 0],
               !.last = [NoLast EXCEPT !.op = "shutdown"]]

CMShutdown ==
    /\ cm.lock = NoConn
    /\ Registered(cm) # {} \/ cm.cleanup_task.pc # "none"
    /\ cm' = shutdown(cm)
    /\ UNCHANGED <<sessionVars, call>>

NextStop ==
    \/ \E c \in Conns, s \in Sessions : CMConnect(c, s)
    \/ \E c \in Conns : CMReject(c)
    \/ \E c \in Conns : CMGreet(c)
    \/ \E c \in Conns : CMPong(c)
    \/ \E c \in Conns : CMSend(c)
    \/ \E c \in Conns : CMClientClose(c)
    \/ \E c \in Conns : CMReceiveClosed(c)
    \/ \E c \in Conns : CMClientDisconnect(c)
    \/ \E c \in Conns : HeartbeatWake(c)
    \/ CleanupWake
    \/ Tick
    \/ CMShutdown

SpecStop == InitCM /\ [][NextStop]_vars

(***************************************************************************)
(* C39.  In every reachable state of the ConnectionManager the connection  *)
(* registry and the metadata map hold the same session_ids, and every      *)
(* session_id of the heartbeat-task map is in the registry.                *)
(***************************************************************************)
WithMetadata(m) == {s \in Sessions : m.connection_metadata[s].present}

WithHeartbeatTask(m) == {s \in Sessions : m.heartbeat_tasks[s] # NoConn}

C39_MapsAgree ==
    /\ Registered(cm) = WithMetadata(cm)
    /\ WithHeartbeatTask(cm) \subseteq Registered(cm)

\* Witness: a send_event has failed on one session and disconnected it, a
\* connect has been refused, a channel has been closed, and another session
\* is registered with its metadata and heartbeat task.
C39_Witness ==
    /\ cm.last.op = "send_event" /\ cm.last.failed
    /\ \E c \in Conns : cm.conns[c].pc = "rejected"
    /\ \E c \in Conns : cm.conns[c].pc = "closed"
    /\ Registered(cm) # {}
    /\ WithHeartbeatTask(cm) = Registered(cm)

(***************************************************************************)
(* C40.  In a turn that runs to completion the client is sent exactly one  *)
(* results event, and it is sent before the done event.                    *)
(***************************************************************************)
Positions(events, e) == {i \in DOMAIN events : events[i] = e}

TurnCompleted(h) == h.pc = "idle" /\ h.outcome = "completed"

C40_OneResultsEvent ==
    \A c \in Channels :
        TurnCompleted(hs[c])
        => /\ Cardinality(Positions(hs[c].log, "results")) = 1
           /\ Before(hs[c].log, "results", "done")

====
